---- MODULE Spec2Model ----
(***************************************************************************)
(* Model of src/1_count_correct_words/count_correct_words.py: the          *)
(* randomized, non-overlapping word layout of generate_word_puzzle.        *)
(*                                                                         *)
(* Numbers.  Centers, widths and heights are the integers of the program.  *)
(* calculate_corners halves the width and the height, so corner            *)
(* coordinates, edges and projections are carried DOUBLED (a corner        *)
(* <<X2, Y2>> stands for the point (X2/2, Y2/2)); every comparison is      *)
(* doubled on both sides.  math.cos and math.sin at the four allowed       *)
(* rotations are taken at their exact values 0, 1, -1: the IEEE rounding   *)
(* residue of math.cos(math.radians(90)) (about 6e-17) is not modelled.    *)
(*                                                                         *)
(* Random source.  The program draws from the module-global generator of   *)
(* `random`.  Its state is the variable rng.  When seeded = FALSE the      *)
(* generator is in an unknown state and every call may return any raw      *)
(* value; when seeded = TRUE (random.seed was called with the value seed)   *)
(* the raw values follow from rng.  randint maps a raw value into its      *)
(* range: onto every value of a range of at most RngMod values, else onto  *)
(* a sample of the range, both ends and the multiples of DrawStep between  *)
(* them.                                                                   *)
(***************************************************************************)
EXTENDS Integers, Sequences, FiniteSets, TLC

(* ------------------------------ bounds -------------------------------- *)
\* total_words is drawn from 1..MaxWords (params["total_words_range"])
MaxWords == 2
\* randint(lo, hi) returns lo, hi or a multiple of DrawStep in between
DrawStep == 400
\* the generator has RngMod states / raw values
RngMod == 8

(* ------------------------- program constants -------------------------- *)
ALLOWED_ROTATIONS == <<0, 90, 180, 270>>
IMAGE_SIZE == <<800, 600>>
DEFAULT_SAFE_MARGIN == 20
MAX_PLACEMENT_ATTEMPTS == 100
\* stroke_width of ImageDraw.text in render_text_image
STROKE_WIDTH == 3
\* "Add padding for collision detection": width + 20, height + 20
COLLISION_PADDING == 20
\* margin = 20 in try_place_word, "Spacing between words"
INTER_ITEM_MARGIN == 20
\* size of the temporary image render_text_image draws the text on
TEMP_SIZE == 1000

None == "None"

Abs(n) == IF n < 0 THEN -n ELSE n
Min2(a, b) == IF a < b THEN a ELSE b
Max2(a, b) == IF a > b THEN a ELSE b

(* ------------------------------ geometry ------------------------------ *)
(* A coordinate is a pair <<b, t>>: the binary64 value b / 2 + t * 2^-54,  *)
(* b twice the value in exact arithmetic (a whole number: the code halves  *)
(* whole widths and heights) and t the rounding error the code has made,   *)
(* zero for an unrotated box.                                              *)

\* the sequence f with every element worked out once
Listed(f) == SubSeq(f, 1, Len(f))

\* floor(log2(n)), n >= 1
Log2(n) == CHOOSE e \in 0..29 : 2 ^ e <= n /\ n < 2 ^ (e + 1)

Sgn(n) == IF n < 0 THEN -1 ELSE IF n > 0 THEN 1 ELSE 0

\* num / den rounded to the nearest whole number, a tie to the even one
RoundEven(num, den) ==
    LET q == num \div den
        r == num % den
    IN  IF 2 * r > den \/ (2 * r = den /\ q % 2 = 1) THEN q + 1 ELSE q

\* math.cos(math.radians(angle)), math.sin(math.radians(angle)):
\* cos(90) = 0x1.1a62633145c07p-54, sin(180) = 0x1.1a62633145c07p-53,
\* cos(270) = -0x1.a79394c9e8a0ap-53, the other values are exact.  A value
\* that is a whole number is v; one that is not (tiny) is
\* sign * (hi * 2^18 + lo + f) * 2^-89 with 0 <= f < 1, its leading 36 bits.
Cos(angle) ==
    CASE angle = 0 -> [tiny |-> FALSE, v |-> 1]
      [] angle = 90 -> [tiny |-> TRUE, sign |-> 1, hi |-> 144580, lo |-> 203146]
      [] angle = 180 -> [tiny |-> FALSE, v |-> -1]
      [] angle = 270 -> [tiny |-> TRUE, sign |-> -1, hi |-> 433742, lo |-> 85150]
Sin(angle) ==
    CASE angle = 0 -> [tiny |-> FALSE, v |-> 0]
      [] angle = 90 -> [tiny |-> FALSE, v |-> 1]
      [] angle = 180 -> [tiny |-> TRUE, sign |-> 1, hi |-> 289161, lo |-> 144148]
      [] angle = 270 -> [tiny |-> FALSE, v |-> -1]

\* the spacing of the binary64 values around b / 2 (b # 0), on the side given
\* by the sign sg, is 2^UlpExp * 2^-54: the spacing below a power of two is
\* half the spacing above it
UlpExp(b, sg) ==
    IF sg # 0 /\ sg # Sgn(b) /\ 2 ^ Log2(Abs(b)) = Abs(b) THEN Log2(Abs(b))
    ELSE Log2(Abs(b)) + 1

\* units / 2^18 to the nearest multiple of 2^g, units no multiple of 2^17
NearestOf(units, g) == ((units \div (2 ^ (17 + g)) + 1) \div 2) * 2 ^ g

\* |n / 2 * k| for a tiny factor k, in units of 2^-72
Units(n, k) == Abs(n) * k.hi + (Abs(n) * k.lo) \div (2 ^ 18)

\* b / 2 + (n / 2) * k for a whole b and a tiny factor k, both the product
\* and the sum rounded to binary64: a product below half the spacing around
\* b / 2, which |b| * 2^-54 is not above, is lost.  (For b = 0 the sum is the
\* product, which is no multiple of 2^-54: t is then the nearest multiple
\* that is not zero.)
AddTiny(b, n, k) ==
    IF b # 0 /\ Units(n, k) < Abs(b) * 2 ^ 17 THEN <<b, 0>>
    ELSE IF n = 0 THEN <<b, 0>>
    ELSE IF b = 0 THEN <<0, Sgn(n) * k.sign * Max2(1, NearestOf(Units(n, k), 0))>>
    ELSE <<b, Sgn(n) * k.sign * NearestOf(Units(n, k), UlpExp(b, Sgn(n) * k.sign))>>

\* v + d / 2 for a coordinate v and a whole d, rounded to binary64: the error
\* to the nearest multiple of the spacing, a tie to the even multiple
AddExact(v, d) ==
    IF v[1] + d = 0 \/ v[2] = 0 THEN <<v[1] + d, v[2]>>
    ELSE <<v[1] + d, RoundEven(v[2], 2 ^ UlpExp(v[1] + d, Sgn(v[2])))
                         * 2 ^ UlpExp(v[1] + d, Sgn(v[2]))>>

\* c / 2 + (p / 2) * cp + (q / 2) * cq, evaluated from left to right in
\* binary64, one of the factors cp and cq tiny and the other whole
Rotated(c, p, cp, q, cq) ==
    IF cp.tiny
    THEN IF c = 0 THEN AddTiny(q * cq.v, p, cp)
         ELSE CHOOSE r \in {AddExact(v, q * cq.v) : v \in {AddTiny(c, p, cp)}} : TRUE
    ELSE AddTiny(c + p * cp.v, q, cq)

\* the corner at the offset (dx / 2, dy / 2) from the center, rotated
RotatedCorner(center_x, center_y, dx, dy, cos_a, sin_a) ==
    << Rotated(2 * center_x, dx, cos_a, -dy, sin_a),
       Rotated(2 * center_y, dx, sin_a, dy, cos_a) >>

\* The four corners of the rectangle: offsets top-left, top-right,
\* bottom-right, bottom-left, rotated about the center by angle.
calculate_corners(center_x, center_y, width, height, angle) ==
    IF angle = 0
    THEN << << <<2 * center_x - width, 0>>, <<2 * center_y - height, 0>> >>,
            << <<2 * center_x + width, 0>>, <<2 * center_y - height, 0>> >>,
            << <<2 * center_x + width, 0>>, <<2 * center_y + height, 0>> >>,
            << <<2 * center_x - width, 0>>, <<2 * center_y + height, 0>> >> >>
    ELSE << RotatedCorner(center_x, center_y, -width, -height, Cos(angle), Sin(angle)),
            RotatedCorner(center_x, center_y, width, -height, Cos(angle), Sin(angle)),
            RotatedCorner(center_x, center_y, width, height, Cos(angle), Sin(angle)),
            RotatedCorner(center_x, center_y, -width, height, Cos(angle), Sin(angle)) >>

\* coordinate v is below the whole number n
Below(v, n) == v[1] < 2 * n \/ (v[1] = 2 * n /\ v[2] < 0)
\* coordinate v is above the whole number n
Above(v, n) == v[1] > 2 * n \/ (v[1] = 2 * n /\ v[2] > 0)

check_corners_in_bounds_strict(corners, image_width, image_height, margin) ==
    \A k \in 1..Len(corners) :
        ~ (\/ Below(corners[k][1], margin)
           \/ Above(corners[k][1], image_width - margin)
           \/ Below(corners[k][2], margin)
           \/ Above(corners[k][2], image_height - margin))

\* every corner inside [margin, image_width - margin) x [margin, image_height - margin)
check_corners_in_bounds(corners, image_width, image_height, margin) ==
    \A k \in 1..Len(corners) :
        ~ (\/ Below(corners[k][1], margin)
           \/ ~ Below(corners[k][1], image_width - margin)
           \/ Below(corners[k][2], margin)
           \/ ~ Below(corners[k][2], image_height - margin))

(* ------------------------- binary64 arithmetic ------------------------- *)
(* A binary64 value is zero, [s |-> 0], or s * m * 2^e with s the sign, m  *)
(* a whole number of exactly 53 bits and e the exponent.  Whole numbers    *)
(* beyond 31 bits are sequences of limbs, the least significant first.     *)

\* each limb holds 14 bits
Base == 2 ^ 14

\* limb j of n, zero outside n
Limb(n, j) == IF j >= 1 /\ j <= Len(n) THEN n[j] ELSE 0

\* the limbs of the sum of the columns from column j on and of the carry c,
\* each column a whole number (below zero as well), the sum not below zero
RECURSIVE Carried(_, _, _)
Carried(cols, j, c) ==
    IF j > Len(cols) THEN <<c>>
    ELSE <<(cols[j] + c) % Base>> \o Carried(cols, j + 1, (cols[j] + c) \div Base)

BigAdd(a, b) ==
    Carried(Listed([j \in 1..Max2(Len(a), Len(b)) |-> Limb(a, j) + Limb(b, j)]), 1, 0)
\* a - b for a >= b
BigSub(a, b) ==
    Carried(Listed([j \in 1..Max2(Len(a), Len(b)) |-> Limb(a, j) - Limb(b, j)]), 1, 0)

\* -1, 0, 1 as a is below, equal to, above b, compared from limb j down
RECURSIVE BigCmp(_, _, _)
BigCmp(a, b, j) ==
    IF j = 0 THEN 0
    ELSE IF Limb(a, j) < Limb(b, j) THEN -1
    ELSE IF Limb(a, j) > Limb(b, j) THEN 1
    ELSE BigCmp(a, b, j - 1)

\* the number of bits of the lower j limbs of n, 0 for zero
RECURSIVE BitLen(_, _)
BitLen(n, j) ==
    IF j = 0 THEN 0
    ELSE IF n[j] = 0 THEN BitLen(n, j - 1)
    ELSE 14 * (j - 1) + Log2(n[j]) + 1

\* n * 2^k in len limbs
ShiftLeft(n, k, len) ==
    Listed([j \in 1..len |->
               (Limb(n, j - k \div 14) % 2 ^ (14 - (k % 14)))
                   * 2 ^ (k % 14)
               + Limb(n, j - k \div 14 - 1) \div 2 ^ (14 - (k % 14))])
\* n \div 2^k in len limbs
ShiftRight(n, k, len) ==
    Listed([j \in 1..len |->
               Limb(n, j + k \div 14) \div 2 ^ (k % 14)
               + (Limb(n, j + k \div 14 + 1) % 2 ^ (k % 14))
                     * 2 ^ (14 - (k % 14))])
\* bit k of n, bit 0 the lowest
BigBit(n, k) == (Limb(n, k \div 14 + 1) \div 2 ^ (k % 14)) % 2
\* the bits of n below bit k are zero
LowZero(n, k) ==
    /\ \A j \in 1..Len(n) : j <= k \div 14 => n[j] = 0
    /\ Limb(n, k \div 14 + 1) % 2 ^ (k % 14) = 0

\* A binary64 value is [s |-> 0] for zero, else s * m * 2^e for the sign s
\* and a whole m of 53 bits, in four limbs (<<0, 0, 0, 1024>> is 2^52).

\* s * up * 2^e for up one above a whole number of 53 bits
FRoundUp(s, up, e) ==
    IF up[4] = 2048 THEN [s |-> s, m |-> <<0, 0, 0, 1024>>, e |-> e + 1]
    ELSE [s |-> s, m |-> SubSeq(up, 1, 4), e |-> e]
\* s * n * 2^e for n of len bits, len > 53, cut to the 53 bits `down`
FRoundCut(s, n, e, len, down) ==
    IF BigBit(n, len - 54) = 1 /\ (~ LowZero(n, len - 54) \/ down[1] % 2 = 1)
    THEN FRoundUp(s, BigAdd(down, <<1>>), e + len - 53)
    ELSE [s |-> s, m |-> down, e |-> e + len - 53]
\* s * n * 2^e for n of len bits
FRoundLen(s, n, e, len) ==
    IF len = 0 THEN [s |-> 0]
    ELSE IF len <= 53 THEN [s |-> s, m |-> ShiftLeft(n, 53 - len, 4), e |-> e + len - 53]
    ELSE FRoundCut(s, n, e, len, ShiftRight(n, len - 53, 4))
\* s * n * 2^e rounded to 53 bits, to the nearest, a tie to the even
FRound(s, n, e) == FRoundLen(s, n, e, BitLen(n, Len(n)))

\* the order of the magnitudes of two values that are not zero
MagCmp(x, y) == IF x.e # y.e THEN (IF x.e < y.e THEN -1 ELSE 1) ELSE BigCmp(x.m, y.m, 4)
\* x < y
FLt(x, y) ==
    IF x.s # y.s THEN x.s < y.s
    ELSE IF x.s = 0 THEN FALSE
    ELSE IF x.s = 1 THEN MagCmp(x, y) = -1
    ELSE MagCmp(x, y) = 1

\* p + q for |p| >= |q| > 0.  A term more than 56 binary places below the
\* other only decides the direction of the rounding.
FAddOrdered(p, q) ==
    IF p.e - q.e > 56
    THEN FRound(p.s, IF p.s = q.s THEN BigAdd(ShiftLeft(p.m, 3, 5), <<1>>)
                     ELSE BigSub(ShiftLeft(p.m, 3, 5), <<1>>), p.e - 3)
    ELSE FRound(p.s, IF p.s = q.s THEN BigAdd(ShiftLeft(p.m, p.e - q.e, 8), q.m)
                     ELSE BigSub(ShiftLeft(p.m, p.e - q.e, 8), q.m), q.e)
FAdd(x, y) ==
    IF x.s = 0 THEN y
    ELSE IF y.s = 0 THEN x
    ELSE IF MagCmp(x, y) >= 0 THEN FAddOrdered(x, y)
    ELSE FAddOrdered(y, x)
FSub(x, y) == FAdd(x, IF y.s = 0 THEN y ELSE [y EXCEPT !.s = -y.s])

FMul(x, y) ==
    IF x.s = 0 \/ y.s = 0 THEN [s |-> 0]
    ELSE FRound(x.s * y.s,
                Carried(Listed([j \in 1..7 |->
                                   Limb(x.m, 1) * Limb(y.m, j) + Limb(x.m, 2) * Limb(y.m, j - 1)
                                   + Limb(x.m, 3) * Limb(y.m, j - 2)
                                   + Limb(x.m, 4) * Limb(y.m, j - 3)]), 1, 0),
                x.e + y.e)

(* Division and square root go bit by bit, on whole numbers below 2^59     *)
(* held as <<low, high>>: low + high * 2^28 with low < 2^28.               *)
Wide == Base * Base
AsWide(n) == <<Limb(n, 1) + Limb(n, 2) * Base, Limb(n, 3) + Limb(n, 4) * Base>>
AsLimbs(w) == <<w[1] % Base, w[1] \div Base, w[2] % Base, (w[2] \div Base) % Base,
                w[2] \div Wide>>
\* w * 2^k + low for k <= 2 and low < 2^k
WideShift(w, k, low) ==
    <<((w[1] * 2 ^ k) % Wide) + low, w[2] * 2 ^ k + (w[1] * 2 ^ k) \div Wide>>
\* a - b for a >= b
WideSub(a, b) == <<(a[1] - b[1]) % Wide, a[2] - b[2] + (a[1] - b[1]) \div Wide>>
\* bit k of w, zero for k < 0
WideBit(w, k) ==
    IF k < 0 THEN 0
    ELSE IF k < 28 THEN (w[1] \div 2 ^ k) % 2
    ELSE (w[2] \div 2 ^ (k - 28)) % 2

\* twice the whole part st[1] of a quotient or a root, one more for a part
\* st[2] that remains
WithSticky(st) == AsLimbs(WideShift(st[1], 1, IF st[2] = <<0, 0>> THEN 0 ELSE 1))

\* the next bit of a quotient or a root st[1]: 1 and trial taken off where
\* the remainder r holds trial, else 0
NextBit(st, r, trial) ==
    IF r[2] > trial[2] \/ (r[2] = trial[2] /\ r[1] >= trial[1]) THEN <<WideShift(st[1], 1, 1), WideSub(r, trial)>>
    ELSE <<WideShift(st[1], 1, 0), r>>

\* <<quotient, remainder>> of r * 2^n by d, for st = <<q, r>> with r < d; the
\* first half of the bits is settled before the second is begun
RECURSIVE DivBits(_, _, _)
DivThen(st, d, n) == IF Len(st) = 2 THEN DivBits(st, d, n) ELSE st
DivBits(st, d, n) ==
    IF n = 0 THEN st
    ELSE IF n = 1 THEN NextBit(st, WideShift(st[2], 1, 0), d)
    ELSE DivThen(DivBits(st, d, n \div 2), d, n - n \div 2)

\* x / y (y # 0): 57 bits of the quotient and one more bit for a remainder
FDiv(x, y) ==
    IF x.s = 0 THEN [s |-> 0]
    ELSE IF BigCmp(x.m, y.m, 4) >= 0
    THEN FRound(x.s * y.s,
                WithSticky(DivBits(<< <<1, 0>>, WideSub(AsWide(x.m), AsWide(y.m)) >>,
                                   AsWide(y.m), 56)), x.e - y.e - 57)
    ELSE FRound(x.s * y.s, WithSticky(DivBits(<< <<0, 0>>, AsWide(x.m) >>, AsWide(y.m), 56)),
                x.e - y.e - 57)

\* <<root, remainder>> of the square root of n * 2^56 down to bit lo, for st
\* the root and the remainder of the bits of n above bit 2 * hi - 55; the
\* upper half of the bits is settled before the lower is begun
RECURSIVE SqrtBits(_, _, _, _)
SqrtThen(n, hi, lo, st) == IF Len(st) = 2 THEN SqrtBits(n, hi, lo, st) ELSE st
SqrtBits(n, hi, lo, st) ==
    IF hi = lo
    THEN NextBit(st,
                 WideShift(st[2], 2, 2 * WideBit(n, 2 * hi - 55) + WideBit(n, 2 * hi - 56)),
                 WideShift(st[1], 2, 1))
    ELSE SqrtThen(n, (hi + lo + 1) \div 2 - 1, lo,
                  SqrtBits(n, hi, (hi + lo + 1) \div 2, st))

\* math.sqrt(x) for x >= 0: 55 bits of the root and one more bit for a remainder
FSqrt(x) ==
    IF x.s = 0 THEN [s |-> 0]
    ELSE IF x.e % 2 = 1
    THEN FRound(1, WithSticky(SqrtBits(WideShift(AsWide(x.m), 1, 0), 54, 0,
                                       << <<0, 0>>, <<0, 0>> >>)),
                (x.e - 1) \div 2 - 29)
    ELSE FRound(1, WithSticky(SqrtBits(AsWide(x.m), 54, 0, << <<0, 0>>, <<0, 0>> >>)),
                x.e \div 2 - 29)

\* the binary64 value of a coordinate
FromCoord(v) ==
    IF v[1] = 0
    THEN FRound(Sgn(v[2]), <<Abs(v[2]) % Base, Abs(v[2]) \div Base>>, -54)
    ELSE FRound(Sgn(v[1]),
                Carried(Listed([j \in 1..6 |->
                            ShiftLeft(<<Abs(v[1]) % Base, Abs(v[1]) \div Base>>, 53, 6)[j]
                            + (IF j = 1 THEN Sgn(v[1]) * v[2] ELSE 0)]), 1, 0),
                -54)

(* --------------------------- overlap test ----------------------------- *)
(* Where no corner carries a rounding error the code's arithmetic is      *)
(* exact: the projections are then whole numbers (doubled, as the corners *)
(* are), an axis a pair of whole numbers.                                  *)

\* <<min, max>> of the dot products of the corners with the axis (doubled),
\* the rounding errors of the corners left out
RECURSIVE ProjectFrom(_, _, _, _, _)
ProjectFrom(corners, axis, k, min_proj, max_proj) ==
    IF k > Len(corners) THEN <<min_proj, max_proj>>
    ELSE LET proj == corners[k][1][1] * axis[1] + corners[k][2][1] * axis[2]
         IN  ProjectFrom(corners, axis, k + 1,
                         IF proj < min_proj THEN proj ELSE min_proj,
                         IF proj > max_proj THEN proj ELSE max_proj)

project_polygon(corners, axis) ==
    LET proj == corners[1][1][1] * axis[1] + corners[1][2][1] * axis[2]
    IN  ProjectFrom(corners, axis, 2, proj, proj)

\* math.sqrt of n0^2 + n1^2.  Every edge of a rectangle rotated by a multiple
\* of 90 degrees is parallel to a coordinate axis, so one of n0, n1 is 0 and
\* the root is exact.
\* The normals of the edges of non-zero length, in edge order: `unit` is the
\* normal of length 1 of an edge whose ends carry no rounding error, `edge`
\* the two ends, from which BinaryAxis works out the normal the code has.
\* (The ends of an edge of length zero are equal with their errors, and the
\* ends of another edge are half a unit apart at least: the code's test
\* length > 0 is decided by the whole parts.)
RECURSIVE AxesFrom(_, _)
AxesFrom(corners, k) ==
    IF k > Len(corners) THEN <<>>
    ELSE LET p1 == corners[k]
             p2 == corners[(k % Len(corners)) + 1]
             n0 == -(p2[2][1] - p1[2][1])
             n1 == p2[1][1] - p1[1][1]
             length == IF n0 = 0 THEN Abs(n1)
                       ELSE IF n1 = 0 THEN Abs(n0)
                       ELSE CHOOSE r \in 0..(Abs(n0) + Abs(n1)) :
                                /\ r * r <= n0 * n0 + n1 * n1
                                /\ (r + 1) * (r + 1) > n0 * n0 + n1 * n1
         IN  (IF length > 0
              THEN << [unit |-> <<n0 \div length, n1 \div length>>, edge |-> <<p1, p2>>] >>
              ELSE <<>>)
             \o AxesFrom(corners, k + 1)

get_polygon_axes(corners) == AxesFrom(corners, 1)

\* lines 133-143 in binary64: the normal <<n0, n1>> of an edge over its
\* length; -(y2 - y1) is y1 - y2, a change of sign being exact
BinaryAxis(edge) ==
    LET n0 == FSub(FromCoord(edge[1][2]), FromCoord(edge[2][2]))
        n1 == FSub(FromCoord(edge[2][1]), FromCoord(edge[1][1]))
        length == FSqrt(FAdd(FMul(n0, n0), FMul(n1, n1)))
    IN  <<FDiv(n0, length), FDiv(n1, length)>>

\* project_polygon in binary64, from corner k on
RECURSIVE BinaryProjectFrom(_, _, _, _, _)
Widened(corners, axis, k, min_proj, max_proj, proj) ==
    BinaryProjectFrom(corners, axis, k + 1,
                      IF FLt(proj, min_proj) THEN proj ELSE min_proj,
                      IF FLt(max_proj, proj) THEN proj ELSE max_proj)
BinaryDot(corner, axis) ==
    FAdd(FMul(FromCoord(corner[1]), axis[1]), FMul(FromCoord(corner[2]), axis[2]))
BinaryProjectFrom(corners, axis, k, min_proj, max_proj) ==
    IF k > Len(corners) THEN <<min_proj, max_proj>>
    ELSE Widened(corners, axis, k, min_proj, max_proj, BinaryDot(corners[k], axis))
BinaryProject(corners, axis) ==
    LET proj == BinaryDot(corners[1], axis)
    IN  BinaryProjectFrom(corners, axis, 2, proj, proj)

\* lines 155-164 in binary64: the projections p[1] and p[2], widened by the
\* margin p[3], are apart
BinarySeparates(corners1, corners2, axis, margin) ==
    \E p \in {<<BinaryProject(corners1, axis), BinaryProject(corners2, axis),
                 FromCoord(<<2 * margin, 0>>)>>} :
        \/ FLt(FAdd(p[1][2], p[3]), FSub(p[2][1], p[3]))
        \/ FLt(FAdd(p[2][2], p[3]), FSub(p[1][1], p[3]))

\* no corner carries a rounding error
Exact(corners) == \A k \in 1..Len(corners) : corners[k][1][2] = 0 /\ corners[k][2][2] = 0

\* Lines 155-164 for one axis.  gap is twice the distance between the
\* projections p[1] and p[2] widened by margin, below zero where they overlap,
\* the rounding errors left out.  The roundings move an end of a projection
\* by less than 2^-25 and the whole parts are multiples of 1/2, so they decide
\* the comparison unless the widened projections meet end to end.
Separates(corners1, corners2, axis, margin) ==
    \E p \in {<<project_polygon(corners1, axis.unit),
                 project_polygon(corners2, axis.unit)>>} :
        \E gap \in {Max2(p[2][1] - p[1][2], p[1][1] - p[2][2]) - 4 * margin} :
            IF gap # 0 \/ (Exact(corners1) /\ Exact(corners2)) THEN gap > 0
            ELSE \E binary_axis \in {BinaryAxis(axis.edge)} :
                     BinarySeparates(corners1, corners2, binary_axis, margin)

\* check_polygons_overlap finding no collision when there is no axis to test
check_polygons_overlap_no_axis_apart(corners1, corners2, margin) ==
    \E c \in {<<corners1, corners2>>} :
        \E axes \in {get_polygon_axes(c[1]) \o get_polygon_axes(c[2])} :
            /\ axes # <<>>
            /\ ~ (\E k \in 1..Len(axes) : Separates(c[1], c[2], axes[k], margin))

\* Separating Axis Theorem: FALSE as soon as one axis separates the two
\* projections, each widened by margin at both ends; TRUE otherwise.
check_polygons_overlap(corners1, corners2, margin) ==
    \E c \in {<<corners1, corners2>>} :
        \E axes \in {get_polygon_axes(c[1]) \o get_polygon_axes(c[2])} :
            ~ (\E k \in 1..Len(axes) : Separates(c[1], c[2], axes[k], margin))

(* ----------------------------- run inputs ----------------------------- *)
\* target words (custom_word or an entry of WORDS_BY_LENGTH), as character
\* lists: distinct letters, identical letters, no visible glyph
Words == { <<"a", "b">>, <<"a", "a">>, <<" ">> }
\* params["font_size_range"] (custom_params may override the presets): a text
\* box that fits several times; one that fits once, its margin relaxed when it
\* is rotated; one that fits nowhere unrotated and exceeds the canvas rotated
FontRanges == { <<61, 61>>, <<453, 453>>, <<534, 534>> }
\* correct_ratio, in percent
Ratios == {0, 100}
\* params["total_words_range"]
TotalWordsRange == <<1, MaxWords>>

VARIABLES
    rng, seeded, seed,                 \* the module-global generator of `random`
    word, correct_ratio, font_size_range,   \* the arguments of the run
    total_words, correct_count,
    pc, i, chars, current_word, angle, collision_width, collision_height,
    attempt, placed_words, actual_correct_count, actual_total_count, result,
    placed_items, outcome,             \* history: what was placed, each item's fate
    run_no, first,                     \* a repeated run: its number, the first run's result
    cur, other,                        \* two runs in one interpreter: the one running,
                                       \* the locals of the one suspended
    canvas, items, tape,               \* the canvas passed to try_place_word; the boxes
                                       \* the renderer returns, when they are given;
                                       \* the raw values the generator replays, if any
    call, ret,                         \* one function of the module called on its own:
                                       \* the call, what it returned
    frame                              \* the locals of a function of the sibling
                                       \* generators while it runs

glob == <<rng, seeded, seed>>
args == <<word, correct_ratio, font_size_range>>
inputs == <<args, total_words, correct_count>>
item == <<chars, current_word, angle, collision_width, collision_height, attempt>>
tally == <<placed_words, actual_correct_count, actual_total_count, placed_items>>
locals == <<inputs, pc, i, item, tally, result, outcome>>
runs == <<run_no, first, cur, other>>
scene == <<canvas, items, tape>>
probe == <<call, ret, frame>>
vars == <<glob, locals, runs, scene, probe>>

(* --------------------------- random source ---------------------------- *)
RawValues == 0..(RngMod - 1)
\* the generator's step: the next state is also the raw value returned
RngNext(s) == (5 * s + 3) % RngMod

\* every sequence of raw values whose k-th value is below sizes[k]
RECURSIVE RawSeqs(_)
RawSeqs(sizes) ==
    IF sizes = <<>> THEN {<<>>}
    ELSE {<<raw>> \o rest : raw \in 0..(Min2(sizes[1], RngMod) - 1),
                            rest \in RawSeqs(Tail(sizes))}

\* the raw values the generator returns in its next n calls, from state s
RECURSIVE RngRun(_, _)
RngRun(s, n) == IF n = 0 THEN <<>> ELSE <<RngNext(s)>> \o RngRun(RngNext(s), n - 1)

\* a generator that cannot be seeded (random.SystemRandom)
DrawsUnseedable(sizes) == RawSeqs(sizes)

\* the raw values the next n calls return when the generator replays tape
\* from position s
TapeRun(s, n) == [k \in 1..n |-> tape[((s + k - 1) % Len(tape)) + 1]]

\* The raw values the next calls may return; sizes[k] is the number of
\* outcomes the k-th call distinguishes (raw values are used modulo it).
Draws(sizes) ==
    IF tape # <<>> THEN {TapeRun(rng, Len(sizes))}
    ELSE IF seeded THEN {RngRun(rng, Len(sizes))} ELSE RawSeqs(sizes)

\* the generator's state after the first k values of raws were returned
RngAfter(raws, k) ==
    IF tape # <<>> THEN (rng + k) % Len(tape)
    ELSE IF seeded /\ k > 0 THEN raws[k] ELSE rng

\* the number of values randint(lo, hi) returns here, for lo <= hi: all of
\* the range when it has at most RngMod values or the generator replays a
\* tape, else lo, hi and the multiples of DrawStep between them
RangeSize(lo, hi) ==
    IF hi - lo < RngMod \/ tape # <<>> THEN hi - lo + 1
    ELSE (hi - 1) \div DrawStep - lo \div DrawStep + 2

\* random.randint(lo, hi) for lo <= hi
randint(raw, lo, hi) ==
    LET n == RangeSize(lo, hi)
        k == raw % n
    IN  IF hi - lo < RngMod \/ tape # <<>> THEN lo + k
        ELSE IF k = 0 THEN lo
        ELSE IF k = n - 1 THEN hi
        ELSE (lo \div DrawStep + k) * DrawStep

\* random.choice(seq)
choice(raw, seq) == seq[(raw % Len(seq)) + 1]

\* random.shuffle(x): for i from len-1 down to 1, swap x[i] with x[j], j drawn
\* from 0..i; raws holds the len-1 raw values
shuffle(x, raws) ==
    LET n == Len(x)
        swap(s, a, b) == [s EXCEPT ![a] = s[b], ![b] = s[a]]
        F[k \in 0..(n - 1)] ==
            IF k = 0 THEN x
            ELSE LET idx == n - k            \* 0-based index i = n-1, n-2, ..., 1
                     j == raws[k] % (idx + 1)
                 IN  swap(F[k - 1], idx + 1, j + 1)
    IN  F[n - 1]

\* the sizes of the len-1 draws of random.shuffle on x
ShuffleSizes(x) == [k \in 1..(Len(x) - 1) |-> Len(x) - k + 1]

\* scramble_word, line 62: a shuffle is returned only if it differs from the word
scramble_accepts_any(scrambled, w) == TRUE

scramble_accepts(scrambled, w) == scrambled # w

(* -------------------------- text rendering ---------------------------- *)
\* horizontal advance of one glyph at a font size (stands for the font's metrics)
CharAdvance(font_size) == (3 * font_size) \div 5

\* render_text_image: None when nothing visible was drawn, else the collision
\* box <<width + 20, height + 20>> of the text's bounding box after rotation
render_text_image(text, font_size, angle_) ==
    IF \A k \in 1..Len(text) : text[k] = " "
    THEN None
    ELSE LET tw == Min2(Len(text) * CharAdvance(font_size) + 2 * STROKE_WIDTH, TEMP_SIZE)
             th == Min2(font_size + 2 * STROKE_WIDTH, TEMP_SIZE)
             width == IF angle_ \in {90, 270} THEN th ELSE tw
             height == IF angle_ \in {90, 270} THEN tw ELSE th
         IN  <<width + COLLISION_PADDING, height + COLLISION_PADDING>>

(* ----------------------------- the sampler ---------------------------- *)
\* try_place_word, lines 223-235: the center range <<min_x, max_x, min_y, max_y>>,
\* the margin dropped on an axis whose range is empty or a single value
center_range(image_size, width, height, safe_margin) ==
    LET min_x == width \div 2 + safe_margin
        max_x == image_size[1] - width \div 2 - safe_margin
        min_y == height \div 2 + safe_margin
        max_y == image_size[2] - height \div 2 - safe_margin
        rx == IF min_x >= max_x
              THEN <<width \div 2, image_size[1] - width \div 2>>
              ELSE <<min_x, max_x>>
        ry == IF min_y >= max_y
              THEN <<height \div 2, image_size[2] - height \div 2>>
              ELSE <<min_y, max_y>>
    IN  <<rx[1], rx[2], ry[1], ry[2]>>

\* the corners of an entry <<x, y, width, height, angle>> of placed_words
PlacedCorners(p) == calculate_corners(p[1], p[2], p[3], p[4], p[5])

\* try_place_word without its loop over the placed words
try_place_word_no_overlap_check(image_size, placed, width, height, angle_, safe_margin, x, y) ==
    IF \E current_corners \in {calculate_corners(x, y, width, height, angle_)} :
           check_corners_in_bounds(current_corners, image_size[1], image_size[2],
                                   safe_margin)
    THEN <<x, y>>
    ELSE None

\* try_place_word, lines 241-256, for the drawn center (x, y): None, or <<x, y>>
try_place_word(image_size, placed, width, height, angle_, safe_margin, x, y) ==
    IF \E current_corners \in {calculate_corners(x, y, width, height, angle_)} :
           /\ check_corners_in_bounds(current_corners, image_size[1], image_size[2],
                                      safe_margin)
           /\ ~ \E k \in 1..Len(placed) :
                    check_polygons_overlap(current_corners, PlacedCorners(placed[k]),
                                           INTER_ITEM_MARGIN)
    THEN <<x, y>>
    ELSE None

(* ------------------------ generate_word_puzzle ------------------------ *)
\* no run: the value of `first` and `other` while there is none
NoRun == [pc |-> "absent"]

\* max(1, int(total_words * correct_ratio)), the ratio in percent
CorrectCount(tw, pct) == Max2(1, (tw * pct) \div 100)

\* the locals of a run entering generate_word_puzzle with custom_word w,
\* correct_ratio pct and font_size_range fsr
Fresh(w, pct, fsr) ==
    [word |-> w, correct_ratio |-> pct, font_size_range |-> fsr,
     total_words |-> 0, correct_count |-> 0,
     pc |-> "start", i |-> 0, chars |-> <<>>, current_word |-> <<>>, angle |-> 0,
     collision_width |-> 0, collision_height |-> 0, attempt |-> 0,
     placed_words |-> <<>>, actual_correct_count |-> 0, actual_total_count |-> 0,
     result |-> None, placed_items |-> <<>>,
     outcome |-> [k \in 0..(-1) |-> "pending"]]

\* the locals of the run that is executing, as one record
Frame ==
    [word |-> word, correct_ratio |-> correct_ratio,
     font_size_range |-> font_size_range,
     total_words |-> total_words, correct_count |-> correct_count,
     pc |-> pc, i |-> i, chars |-> chars,
     current_word |-> current_word, angle |-> angle,
     collision_width |-> collision_width, collision_height |-> collision_height,
     attempt |-> attempt, placed_words |-> placed_words,
     actual_correct_count |-> actual_correct_count,
     actual_total_count |-> actual_total_count, result |-> result,
     placed_items |-> placed_items, outcome |-> outcome]

\* the executing run's locals become those of f
Load(f) ==
    /\ word' = f.word /\ correct_ratio' = f.correct_ratio
    /\ font_size_range' = f.font_size_range
    /\ total_words' = f.total_words /\ correct_count' = f.correct_count
    /\ pc' = f.pc /\ i' = f.i /\ chars' = f.chars /\ current_word' = f.current_word
    /\ angle' = f.angle /\ collision_width' = f.collision_width
    /\ collision_height' = f.collision_height /\ attempt' = f.attempt
    /\ placed_words' = f.placed_words
    /\ actual_correct_count' = f.actual_correct_count
    /\ actual_total_count' = f.actual_total_count /\ result' = f.result
    /\ placed_items' = f.placed_items /\ outcome' = f.outcome

\* no function is called on its own; a call that has not returned
NoCall == [fn |-> "none"]
NoResult == [done |-> FALSE]

\* the program as it is run: the canvas is IMAGE_SIZE (line 307), the boxes
\* come from render_text_image
Program ==
    /\ canvas = IMAGE_SIZE /\ items = <<>> /\ tape = <<>>
    /\ call = NoCall /\ ret = NoResult /\ frame = NoCall

\* generate_word_puzzle is entered with some arguments
StartRun ==
    \E w \in Words, pct \in Ratios, fsr \in FontRanges :
        /\ word = w /\ correct_ratio = pct /\ font_size_range = fsr
        /\ total_words = 0 /\ correct_count = 0
        /\ pc = "start" /\ i = 0 /\ chars = <<>> /\ current_word = <<>> /\ angle = 0
        /\ collision_width = 0 /\ collision_height = 0 /\ attempt = 0
        /\ placed_words = <<>> /\ actual_correct_count = 0 /\ actual_total_count = 0
        /\ result = None /\ placed_items = <<>>
        /\ outcome = [k \in 0..(-1) |-> "pending"]

\* one run, the generator never seeded (main)
Init ==
    /\ rng = 0 /\ seeded = FALSE /\ seed = 0
    /\ run_no = 1 /\ first = NoRun /\ cur = "A" /\ other = NoRun
    /\ Program
    /\ StartRun

\* lines 262-286: the number of items is drawn, the counters start at zero
Setup ==
    /\ pc = "start"
    /\ \E raws \in Draws(<<RangeSize(TotalWordsRange[1], TotalWordsRange[2])>>) :
          LET tw == randint(raws[1], TotalWordsRange[1], TotalWordsRange[2])
          IN  /\ total_words' = tw
              /\ correct_count' = CorrectCount(tw, correct_ratio)
              /\ outcome' = [k \in 0..(tw - 1) |-> "pending"]
              /\ rng' = RngAfter(raws, 1)
    /\ pc' = "loop"
    /\ UNCHANGED <<seeded, seed, args, i, item, tally, result, runs, scene, probe>>

\* the item's locals are dead once the item is finished
ClearItem ==
    /\ chars' = <<>> /\ current_word' = <<>> /\ angle' = 0
    /\ collision_width' = 0 /\ collision_height' = 0 /\ attempt' = 0

\* the sizes of the two draws of lines 293 and 297
FontAngleSizes ==
    <<RangeSize(font_size_range[1], font_size_range[2]), Len(ALLOWED_ROTATIONS)>>

\* lines 293-302 without the `continue` of line 302: an item that rendered
\* to nothing goes on to the attempt loop
PrepareItemNoSkip(cw, raw_font, raw_angle) ==
    LET font_size == randint(raw_font, font_size_range[1], font_size_range[2])
        a == choice(raw_angle, ALLOWED_ROTATIONS)
        r == render_text_image(cw, font_size, a)
    IN  /\ current_word' = cw /\ angle' = a
        /\ collision_width' = (IF r = None THEN 0 ELSE r[1])
        /\ collision_height' = (IF r = None THEN 0 ELSE r[2])
        /\ attempt' = 0 /\ chars' = <<>>
        /\ outcome' = (IF r = None THEN [outcome EXCEPT ![i] = "render_failed"]
                       ELSE outcome)
        /\ i' = i /\ pc' = "place"

\* lines 293-302 for the item's text cw and the two raw values drawn
PrepareItem(cw, raw_font, raw_angle) ==
    LET font_size == randint(raw_font, font_size_range[1], font_size_range[2])
        a == choice(raw_angle, ALLOWED_ROTATIONS)
        r == render_text_image(cw, font_size, a)
    IN  IF r = None
        THEN /\ ClearItem
             /\ outcome' = [outcome EXCEPT ![i] = "render_failed"]
             /\ i' = i + 1 /\ pc' = "loop"
        ELSE /\ current_word' = cw /\ angle' = a
             /\ collision_width' = r[1] /\ collision_height' = r[2]
             /\ attempt' = 0 /\ chars' = <<>>
             /\ outcome' = outcome
             /\ i' = i /\ pc' = "place"

\* lines 288-302 for an item with i < correct_count
NextCorrectItem ==
    /\ pc = "loop" /\ i < total_words /\ i < correct_count
    /\ \E raws \in Draws(FontAngleSizes) :
          /\ PrepareItem(word, raws[1], raws[2])
          /\ rng' = RngAfter(raws, 2)
    /\ UNCHANGED <<seeded, seed, inputs, tally, result, runs, scene, probe>>

\* lines 288-290 and 58 for an item with i >= correct_count: scramble_word is entered
EnterScramble ==
    /\ pc = "loop" /\ i < total_words /\ i >= correct_count
    /\ chars' = word /\ pc' = "scramble"
    /\ UNCHANGED <<glob, inputs, i, current_word, angle, collision_width,
                   collision_height, attempt, tally, result, outcome, runs, scene, probe>>

\* one turn of the loop of scramble_word (lines 59-63), and lines 293-302 when
\* it returns
ScrambleTurn ==
    /\ pc = "scramble"
    /\ \E raws \in Draws(ShuffleSizes(chars) \o FontAngleSizes) :
          LET n == Len(chars) - 1
              scrambled == shuffle(chars, SubSeq(raws, 1, n))
          IN  IF scramble_accepts(scrambled, word)
              THEN /\ PrepareItem(scrambled, raws[n + 1], raws[n + 2])
                   /\ rng' = RngAfter(raws, n + 2)
              ELSE /\ chars' = scrambled
                   /\ rng' = RngAfter(raws, n)
                   /\ UNCHANGED <<pc, i, current_word, angle, collision_width,
                                  collision_height, attempt, outcome>>
    /\ UNCHANGED <<seeded, seed, inputs, tally, result, runs, scene, probe>>

\* lines 310-326 with placed_words a module-level list: the placement is
\* stored in the list every run reads
RecordPlacementShared(x, y) ==
    /\ placed_words' = Append(placed_words,
                              <<x, y, collision_width, collision_height, angle>>)
    /\ placed_items' = Append(placed_items, [index |-> i, text |-> current_word])
    /\ actual_correct_count' = actual_correct_count + (IF i < correct_count THEN 1 ELSE 0)
    /\ actual_total_count' = actual_total_count + 1
    /\ outcome' = [outcome EXCEPT ![i] = "placed"]
    /\ ClearItem
    /\ i' = i + 1 /\ pc' = "loop"
    /\ other' = IF other.pc = "absent" THEN other
                ELSE [other EXCEPT !.placed_words = placed_words']

\* lines 310-326 with the placement inserted at the head of the list
RecordPlacementAtHead(x, y) ==
    /\ placed_words' = <<(<<x, y, collision_width, collision_height, angle>>)>>
                           \o placed_words
    /\ placed_items' = <<[index |-> i, text |-> current_word]>> \o placed_items
    /\ actual_correct_count' = actual_correct_count + (IF i < correct_count THEN 1 ELSE 0)
    /\ actual_total_count' = actual_total_count + 1
    /\ outcome' = [outcome EXCEPT ![i] = "placed"]
    /\ ClearItem
    /\ i' = i + 1 /\ pc' = "loop"
    /\ other' = other

\* lines 310-326 with the total counted for correct items only
RecordPlacementCorrectOnly(x, y) ==
    /\ placed_words' = Append(placed_words,
                              <<x, y, collision_width, collision_height, angle>>)
    /\ placed_items' = Append(placed_items, [index |-> i, text |-> current_word])
    /\ actual_correct_count' = actual_correct_count + (IF i < correct_count THEN 1 ELSE 0)
    /\ actual_total_count' = actual_total_count + (IF i < correct_count THEN 1 ELSE 0)
    /\ outcome' = [outcome EXCEPT ![i] = "placed"]
    /\ ClearItem
    /\ i' = i + 1 /\ pc' = "loop"
    /\ other' = other

\* lines 310-326: the placement (x, y) is stored in the run's own list (a
\* local, line 284), the counters updated, the attempt loop left for the next
\* item
RecordPlacement(x, y) ==
    /\ placed_words' = Append(placed_words,
                              <<x, y, collision_width, collision_height, angle>>)
    /\ placed_items' = Append(placed_items, [index |-> i, text |-> current_word])
    /\ actual_correct_count' = actual_correct_count + (IF i < correct_count THEN 1 ELSE 0)
    /\ actual_total_count' = actual_total_count + 1
    /\ outcome' = [outcome EXCEPT ![i] = "placed"]
    /\ ClearItem
    /\ i' = i + 1 /\ pc' = "loop"
    /\ other' = other

\* random.randint raises ValueError (empty range): the exception leaves
\* try_place_word and generate_word_puzzle, nothing catches it
Raise ==
    /\ pc' = "raised"
    /\ outcome' = [outcome EXCEPT ![i] = "raised"]
    /\ UNCHANGED <<i, item, tally, other>>

\* one pass of the attempt loop (lines 306-326): try_place_word is called
TryPlace ==
    /\ pc = "place" /\ attempt < MAX_PLACEMENT_ATTEMPTS
    /\ LET r == center_range(canvas, collision_width, collision_height,
                             DEFAULT_SAFE_MARGIN)
       IN  IF r[1] > r[2]
           THEN Raise /\ rng' = rng
           ELSE IF r[3] > r[4]
           THEN \E raws \in Draws(<<RangeSize(r[1], r[2])>>) :
                    Raise /\ rng' = RngAfter(raws, 1)
           ELSE \E raws \in Draws(<<RangeSize(r[1], r[2]), RangeSize(r[3], r[4])>>) :
                    LET x == randint(raws[1], r[1], r[2])
                        y == randint(raws[2], r[3], r[4])
                    IN  /\ rng' = RngAfter(raws, 2)
                        /\ IF try_place_word(canvas, placed_words, collision_width,
                                             collision_height, angle,
                                             DEFAULT_SAFE_MARGIN, x, y) = None
                           THEN /\ attempt' = attempt + 1
                                /\ UNCHANGED <<pc, i, chars, current_word, angle,
                                               collision_width, collision_height,
                                               tally, outcome, other>>
                           ELSE RecordPlacement(x, y)
    /\ UNCHANGED <<seeded, seed, inputs, result, run_no, first, cur, scene, probe>>

\* the attempt loop gives up after its first failed call
ExhaustedAfterOne ==
    /\ pc = "place" /\ attempt >= 1
    /\ outcome' = [outcome EXCEPT ![i] = "exhausted"]
    /\ ClearItem
    /\ i' = i + 1 /\ pc' = "loop"
    /\ UNCHANGED <<glob, inputs, tally, result, runs, scene, probe>>

\* the item loop is left when an item's attempts are exhausted
ExhaustedAborts ==
    /\ pc = "place" /\ attempt = MAX_PLACEMENT_ATTEMPTS
    /\ outcome' = [outcome EXCEPT ![i] = "exhausted"]
    /\ ClearItem
    /\ i' = total_words /\ pc' = "loop"
    /\ UNCHANGED <<glob, inputs, tally, result, runs, scene, probe>>

\* range(MAX_PLACEMENT_ATTEMPTS) is exhausted (line 306): the item is left
\* unplaced and the item loop goes on
Exhausted ==
    /\ pc = "place" /\ attempt = MAX_PLACEMENT_ATTEMPTS
    /\ outcome' = [outcome EXCEPT ![i] = "exhausted"]
    /\ ClearItem
    /\ i' = i + 1 /\ pc' = "loop"
    /\ UNCHANGED <<glob, inputs, tally, result, runs, scene, probe>>

\* lines 328-335: the item loop is over, the output path is returned
Finish ==
    /\ pc = "loop" /\ i = total_words
    /\ result' = [output_path |-> <<word, actual_correct_count>>]
    /\ pc' = "done"
    /\ UNCHANGED <<glob, inputs, i, item, tally, outcome, runs, scene, probe>>

Next ==
    \/ Setup
    \/ NextCorrectItem
    \/ EnterScramble
    \/ ScrambleTurn
    \/ TryPlace
    \/ Exhausted
    \/ Finish

Spec == Init /\ [][Next]_vars

\* the interpreter keeps executing the run while it has a next statement
FairSpec == Init /\ [][Next]_vars /\ WF_vars(Next)

(* ------------------- runs with a seeded generator --------------------- *)
\* random.seed(s), then a run
SeededInit ==
    /\ seeded = TRUE /\ seed \in RawValues /\ rng = seed
    /\ run_no = 1 /\ first = NoRun /\ cur = "A" /\ other = NoRun
    /\ Program
    /\ StartRun

\* the first run is over: random.seed(s) again, and the same call once more
Rerun ==
    /\ run_no = 1 /\ pc \in {"done", "raised"}
    /\ first' = Frame
    /\ rng' = seed
    /\ Load(Fresh(word, correct_ratio, font_size_range))
    /\ run_no' = 2
    /\ UNCHANGED <<seeded, seed, cur, other, scene, probe>>

\* the first run is over: random.seed(s) again, and the same call made by two
\* threads of the interpreter, A and B
RerunTwo ==
    /\ run_no = 1 /\ pc \in {"done", "raised"}
    /\ first' = Frame
    /\ rng' = seed
    /\ Load(Fresh(word, correct_ratio, font_size_range))
    /\ other' = Fresh(word, correct_ratio, font_size_range)
    /\ run_no' = 2
    /\ UNCHANGED <<seeded, seed, cur, scene, probe>>

\* the interpreter switches to the other thread (taken between two items, or
\* when the executing run is over)
Switch ==
    /\ other.pc \notin {"absent", "done", "raised"}
    /\ pc \in {"start", "loop", "done", "raised"}
    /\ other' = Frame
    /\ Load(other)
    /\ cur' = IF cur = "A" THEN "B" ELSE "A"
    /\ UNCHANGED <<glob, run_no, first, scene, probe>>

SeededNext ==
    \/ Setup
    \/ NextCorrectItem
    \/ EnterScramble
    \/ ScrambleTurn
    \/ TryPlace
    \/ Exhausted
    \/ Finish
    \/ Rerun
    \/ RerunTwo
    \/ Switch

SeededSpec == SeededInit /\ [][SeededNext]_vars

(* --------------------- runs over given boxes -------------------------- *)
\* the largest seed of a run over given boxes
MaxSeed == 1

\* Scenario A: five boxes of 100 x 40, unrotated
ScenarioA == [k \in 1..5 |-> <<100, 40, 0>>]

\* Scenario C: ten boxes of 200 x 200, unrotated
ScenarioC == [k \in 1..10 |-> <<200, 200, 0>>]

\* boxes at angle 0 whose center range is relaxed: on x with one value left
\* before (760), with none (761), with one after (801); on y; and the item of
\* width 900 of Scenario B
Oversized == << <<760, 40, 0>>, <<761, 40, 0>>, <<801, 40, 0>>, <<100, 570, 0>>,
                <<900, 100, 0>> >>

\* The sequences of raw values the generator replays in these runs, two per
\* attempt (x, then y; randint adds the raw value, modulo the size of the
\* range, to the lower end).  For a 200 x 200 box on the 800 x 600 canvas:
\* the upper ends of both ranges; centers in three columns and two rows,
\* one of them twice and one in the middle of four others; the same columns
\* and rows as close as the inter-item margin allows, each preceded by the
\* center one pixel closer.  For a 100 x 40 box: the upper ends.
Tapes ==
    { <<560, 360>>,
      <<0, 0, 0, 0, 280, 0, 550, 0, 280, 180, 0, 280, 280, 280, 550, 280>>,
      <<0, 0, 240, 0, 241, 0, 481, 0, 482, 0, 0, 240, 0, 241, 241, 241, 482, 241>>,
      <<660, 520>> }

\* the canvases of a second run: narrower, lower, or both
SmallerCanvases == { <<790, 600>>, <<800, 590>>, <<790, 590>> }

\* A run for which the renderer returns the given boxes, in order, and the
\* draw of line 297 the angle of each: its locals on entering the item loop
\* (line 288), every item a copy of the word.
ListedFresh(boxes) ==
    [Fresh(<<"a", "b">>, 100, <<0, 0>>) EXCEPT
        !.total_words = Len(boxes), !.correct_count = Len(boxes), !.pc = "loop",
        !.outcome = [k \in 0..(Len(boxes) - 1) |-> "pending"]]

ListedRun(boxes) ==
    /\ word = <<"a", "b">> /\ correct_ratio = 100 /\ font_size_range = <<0, 0>>
    /\ total_words = Len(boxes) /\ correct_count = Len(boxes)
    /\ pc = "loop" /\ i = 0 /\ chars = <<>> /\ current_word = <<>> /\ angle = 0
    /\ collision_width = 0 /\ collision_height = 0 /\ attempt = 0
    /\ placed_words = <<>> /\ actual_correct_count = 0 /\ actual_total_count = 0
    /\ result = None /\ placed_items = <<>>
    /\ outcome = [k \in 0..(Len(boxes) - 1) |-> "pending"]

\* random.seed(s), then a run over the boxes of a scenario on the 800 x 600
\* canvas
ListedInit ==
    /\ seeded = TRUE /\ tape \in Tapes /\ seed \in 0..MaxSeed /\ rng = seed
    /\ run_no = 1 /\ first = NoRun /\ cur = "A" /\ other = NoRun
    /\ canvas = IMAGE_SIZE /\ items \in {ScenarioA, ScenarioC, Oversized}
    /\ call = NoCall /\ ret = NoResult /\ frame = NoCall
    /\ ListedRun(items)

\* lines 288-304 for a listed box: the item goes to the attempt loop with the
\* box and the angle of the list
NextListedItem ==
    /\ pc = "loop" /\ i < total_words
    /\ current_word' = word /\ chars' = <<>>
    /\ collision_width' = items[i + 1][1] /\ collision_height' = items[i + 1][2]
    /\ angle' = items[i + 1][3]
    /\ attempt' = 0 /\ pc' = "place"
    /\ UNCHANGED <<glob, inputs, i, tally, result, outcome, runs, scene, probe>>

\* the first run is over: random.seed(s) again, and the same boxes once more
\* on a smaller canvas
RerunSmaller ==
    /\ run_no = 1 /\ pc = "done"
    /\ first' = Frame
    /\ rng' = seed
    /\ canvas' \in SmallerCanvases
    /\ Load(ListedFresh(items))
    /\ run_no' = 2
    /\ UNCHANGED <<seeded, seed, cur, other, items, tape, probe>>

ListedNext ==
    \/ NextListedItem
    \/ TryPlace
    \/ Exhausted
    \/ Finish
    \/ RerunSmaller

ListedSpec == ListedInit /\ [][ListedNext]_vars

(* ------------------- the functions called alone ----------------------- *)
\* the arguments of the calls of center_range (try_place_word, lines 223-235)
CenterCalls ==
    { [fn |-> "center_range", image_size |-> IMAGE_SIZE, width |-> w, height |-> h,
       safe_margin |-> DEFAULT_SAFE_MARGIN] :
        w \in {100, 758, 759, 760, 761, 762, 800, 801, 802, 900},
        h \in {40, 558, 559, 560, 561, 562, 600, 601, 602} }

\* boxes <<center_x, center_y, width, height, angle>>: without extent, with
\* one extent only, and with both
PointBoxes == { <<x, y, 0, 0, a>> : x \in {100, 700}, y \in {100, 500}, a \in {0, 180} }
LineBoxes == { <<100, 100, 0, 40, 0>>, <<100, 100, 60, 0, 0>> }
FullBoxes == { <<100, 100, 60, 40, 0>>, <<400, 300, 200, 200, 0>> }
Margins == {0, 20}

AxesCalls ==
    { [fn |-> "get_polygon_axes", box |-> b] : b \in PointBoxes \cup LineBoxes \cup FullBoxes }

\* boxes without extent, and rectangles at the four rotations: one of a pair
\* beside the other, on it, or meeting it along an edge or at a corner,
\* without a margin or with it
OverlapCalls ==
    { [fn |-> "check_polygons_overlap", box1 |-> b1, box2 |-> b2, margin |-> m] :
        b1 \in PointBoxes \cup LineBoxes, b2 \in PointBoxes \cup FullBoxes, m \in Margins }
    \cup
    { [fn |-> "check_polygons_overlap", box1 |-> b1, box2 |-> b2, margin |-> m] :
        b1 \in { <<400, 300, 100, 40, 0>>, <<400, 300, 40, 100, 90>>,
                 <<388, 246, 20, 132, 90>>, <<145, 390, 286, 211, 270>>,
                 <<324, 61, 417, 8, 180>>, <<344, 486, 205, 33, 270>> },
        b2 \in { <<500, 300, 100, 40, 0>>, <<540, 300, 100, 40, 180>>,
                 <<541, 300, 100, 40, 0>>, <<500, 340, 40, 100, 270>>,
                 <<420, 310, 100, 40, 0>>, <<477, 264, 46, 1, 0>>,
                 <<352, 390, 123, 41, 180>>, <<579, 81, 93, 28, 180>>,
                 <<377, 263, 33, 468, 180>> },
        m \in Margins }

\* boxes unrotated and turned by 180 degrees
CornersCalls ==
    { [fn |-> "calculate_corners", box |-> <<x, y, w, h, a>>] :
        x \in {60, 400, 699}, y \in {40, 145, 300}, w \in {0, 100, 702},
        h \in {0, 40, 84}, a \in {0, 180} }

\* try_place_word for a box without extent, next to one placed at (100, 100),
\* with the center it draws
PlaceCalls ==
    { [fn |-> "try_place_word", image_size |-> IMAGE_SIZE,
       placed |-> << <<100, 100, 0, 0, 0>> >>, width |-> 0, height |-> 0, angle |-> a,
       safe_margin |-> DEFAULT_SAFE_MARGIN, x |-> x, y |-> y] :
        a \in {0, 180}, x \in {20, 100, 779}, y \in {20, 100, 579} }

\* no run is executing
NoRunning ==
    /\ word = <<>> /\ correct_ratio = 0 /\ font_size_range = <<0, 0>>
    /\ total_words = 0 /\ correct_count = 0
    /\ pc = "idle" /\ i = 0 /\ chars = <<>> /\ current_word = <<>> /\ angle = 0
    /\ collision_width = 0 /\ collision_height = 0 /\ attempt = 0
    /\ placed_words = <<>> /\ actual_correct_count = 0 /\ actual_total_count = 0
    /\ result = None /\ placed_items = <<>>
    /\ outcome = [k \in 0..(-1) |-> "pending"]

\* a function is called with arguments of these sets
KernelInit ==
    /\ rng = 0 /\ seeded = FALSE /\ seed = 0
    /\ run_no = 1 /\ first = NoRun /\ cur = "A" /\ other = NoRun
    /\ canvas = IMAGE_SIZE /\ items = <<>> /\ tape = <<>>
    /\ NoRunning
    /\ call \in CenterCalls \cup AxesCalls \cup OverlapCalls \cup CornersCalls
                \cup PlaceCalls
    /\ ret = NoResult /\ frame = NoCall

\* the call returns v
Return(v) ==
    /\ ret = NoResult
    /\ ret' = [done |-> TRUE, value |-> v]
    /\ UNCHANGED <<glob, locals, runs, scene, call, frame>>

\* lines 223-235 of try_place_word
CallCenterRange ==
    /\ call.fn = "center_range"
    /\ Return(center_range(call.image_size, call.width, call.height, call.safe_margin))

CallCalculateCorners ==
    /\ call.fn = "calculate_corners"
    /\ Return(PlacedCorners(call.box))

CallGetPolygonAxes ==
    /\ call.fn = "get_polygon_axes"
    /\ Return(get_polygon_axes(PlacedCorners(call.box)))

CallCheckPolygonsOverlap ==
    /\ call.fn = "check_polygons_overlap"
    /\ Return(check_polygons_overlap(PlacedCorners(call.box1), PlacedCorners(call.box2),
                                     call.margin))

\* lines 241-256 of try_place_word
CallTryPlaceWord ==
    /\ call.fn = "try_place_word"
    /\ Return(try_place_word(call.image_size, call.placed, call.width, call.height,
                             call.angle, call.safe_margin, call.x, call.y))

KernelNext ==
    \/ CallCenterRange
    \/ CallCalculateCorners
    \/ CallGetPolygonAxes
    \/ CallCheckPolygonsOverlap
    \/ CallTryPlaceWord

KernelSpec == KernelInit /\ [][KernelNext]_vars

(* ------------- 2_cut_letters: LetterPuzzleGenerator ------------------- *)
\* string.ascii_uppercase; a string is the sequence of its letters
Letters == {"A", "B", "C", "D", "E", "F", "G", "H", "I", "J", "K", "L", "M",
            "N", "O", "P", "Q", "R", "S", "T", "U", "V", "W", "X", "Y", "Z"}

\* self.visually_similar_letters
visually_similar_letters ==
    ("A" :> <<"H", "R", "V">>) @@ ("B" :> <<"P", "R", "D">>) @@
    ("C" :> <<"G", "O", "Q">>) @@ ("D" :> <<"O", "Q", "B">>) @@
    ("E" :> <<"F", "B", "P">>) @@ ("F" :> <<"E", "P", "T">>) @@
    ("G" :> <<"C", "O", "Q">>) @@ ("H" :> <<"A", "M", "N">>) @@
    ("I" :> <<"J", "L", "T">>) @@ ("J" :> <<"I", "L", "U">>) @@
    ("K" :> <<"R", "X", "Y">>) @@ ("L" :> <<"I", "J", "T">>) @@
    ("M" :> <<"N", "H", "W">>) @@ ("N" :> <<"M", "H", "U">>) @@
    ("O" :> <<"C", "D", "Q">>) @@ ("P" :> <<"B", "R", "D">>) @@
    ("Q" :> <<"O", "G", "D">>) @@ ("R" :> <<"P", "B", "K">>) @@
    ("S" :> <<"Z", "E", "G">>) @@ ("T" :> <<"I", "L", "F">>) @@
    ("U" :> <<"V", "Y", "N">>) @@ ("V" :> <<"U", "Y", "W">>) @@
    ("W" :> <<"V", "M", "N">>) @@ ("X" :> <<"K", "Y", "Z">>) @@
    ("Y" :> <<"V", "U", "X">>) @@ ("Z" :> <<"S", "X", "N">>)

\* __init__: num_letters and num_options of the difficulty, lower-cased; any
\* other word than easy and medium is taken as hard
Configured(difficulty) ==
    IF difficulty = "easy" THEN [num_letters |-> 2, num_options |-> 3]
    ELSE IF difficulty = "medium" THEN [num_letters |-> 3, num_options |-> 4]
    ELSE [num_letters |-> 4, num_options |-> 4]

\* generate_puzzle calls generate_options with num_letters random letters
OptionsCalls ==
    { [fn |-> "generate_options", difficulty |-> d, correct_letters |-> w] :
        d \in {"easy", "medium", "hard"},
        w \in {<<"A", "Z">>, <<"O", "O">>, <<"C", "O", "Q">>, <<"O", "Q", "G", "D">>} }

\* the pairs drawn were the similar letters looked up for the first letter
ReplacementsOfFirstLetter(correct_letters) ==
    {<<pos, visually_similar_letters[correct_letters[1]][k]>> :
        pos \in 0..(Len(correct_letters) - 1), k \in 1..3}
\* the pairs <<position, replacement>> a pass of the while loop may draw: the
\* similar letters of the letter at the position or, where it has none, any
\* other letter
Replacements(correct_letters) ==
    UNION { LET letter == correct_letters[pos + 1]
                similar_letters == IF letter \in DOMAIN visually_similar_letters
                                   THEN visually_similar_letters[letter] ELSE <<>>
            IN  IF similar_letters # <<>>
                THEN {<<pos, similar_letters[k]>> : k \in 1..Len(similar_letters)}
                ELSE {<<pos, c>> : c \in Letters \ {letter}}
          : pos \in 0..(Len(correct_letters) - 1) }

\* options = [], correct_index drawn, the for loop entered
ChooseCorrectIndex ==
    /\ call.fn = "generate_options" /\ frame = NoCall
    /\ \E correct_index \in 0..(Configured(call.difficulty).num_options - 1) :
           frame' = [options |-> <<>>, correct_index |-> correct_index, i |-> 0,
                     draw |-> <<>>]
    /\ UNCHANGED <<glob, locals, runs, scene, call, ret>>

\* the pass of the for loop with i = correct_index
AppendCorrect ==
    /\ call.fn = "generate_options" /\ frame # NoCall
    /\ frame.i < Configured(call.difficulty).num_options
    /\ frame.i = frame.correct_index
    /\ frame' = [frame EXCEPT !.options = Append(@, call.correct_letters), !.i = @ + 1]
    /\ UNCHANGED <<glob, locals, runs, scene, call, ret>>

\* One pass of the while loop of the for loop's other passes: draw, the pair
\* <<pos, replacement>>, is drawn; a new option is appended and the for loop
\* goes on, or the while loop goes round again.
DrawOption ==
    /\ call.fn = "generate_options" /\ frame # NoCall
    /\ frame.i < Configured(call.difficulty).num_options
    /\ frame.i # frame.correct_index
    /\ \E draw \in Replacements(call.correct_letters) :
           LET new_option == [call.correct_letters EXCEPT ![draw[1] + 1] = draw[2]]
           IN  IF /\ new_option # call.correct_letters
                  /\ \A k \in 1..Len(frame.options) : frame.options[k] # new_option
               THEN frame' = [frame EXCEPT !.options = Append(@, new_option), !.i = @ + 1,
                                           !.draw = draw]
               ELSE frame' = [frame EXCEPT !.draw = draw]
    /\ UNCHANGED <<glob, locals, runs, scene, call, ret>>

\* after the for loop: options with a duplicate are generated again, others
\* are returned with correct_index
FinishOptions ==
    /\ call.fn = "generate_options" /\ frame # NoCall
    /\ frame.i = Configured(call.difficulty).num_options
    /\ IF Cardinality({frame.options[k] : k \in 1..Len(frame.options)}) # Len(frame.options)
       THEN /\ ret = NoResult /\ frame' = NoCall
            /\ UNCHANGED <<glob, locals, runs, scene, call, ret>>
       ELSE Return(<<frame.options, frame.correct_index>>)

(* ------------- fill_in_matrix: generate_clues_and_answer -------------- *)
TOTAL_NUMBER == 9
STARS == 3
NUMBER_OF_EXTRA_CLUES == 2

\* clues.count("x") < 3; a grid is the sequence of its cells, cell n at n + 1
should_add_extra_clues_always(clues) == TRUE
should_add_extra_clues(clues) ==
    Cardinality({n \in 1..Len(clues) : clues[n] = "x"}) < 3

\* The grids generate_render can return, one for each outcome of its draws:
\* the star grid where the coin of random.choice falls True and number_of_x
\* is TOTAL_NUMBER - 1; else the necessary clues, with 'x' at the cells of
\* random.sample(unnecessary, NUMBER_OF_EXTRA_CLUES) where extra clues are
\* added.  <<"ValueError">> stands for random.sample raising on a list
\* shorter than the sample.
generate_render(star_position, number_of_x, unnecessary) ==
    LET necessary == [n \in 1..TOTAL_NUMBER |->
                         IF /\ \A k \in 1..Len(unnecessary) : unnecessary[k] # n - 1
                            /\ n - 1 # star_position
                         THEN "x" ELSE " "]
    IN  (IF number_of_x = TOTAL_NUMBER - 1
         THEN {[n \in 1..TOTAL_NUMBER |-> IF n - 1 = star_position THEN "*" ELSE " "]}
         ELSE {})
        \cup
        (IF ~ should_add_extra_clues(necessary) THEN {necessary}
         ELSE IF Len(unnecessary) < NUMBER_OF_EXTRA_CLUES THEN {<<"ValueError">>}
         ELSE { [n \in 1..TOTAL_NUMBER |->
                    IF n - 1 \in {unnecessary[sample[k]] : k \in 1..NUMBER_OF_EXTRA_CLUES}
                    THEN "x" ELSE necessary[n]] :
                sample \in { q \in [1..NUMBER_OF_EXTRA_CLUES -> 1..Len(unnecessary)] :
                               \A j, k \in 1..NUMBER_OF_EXTRA_CLUES : j # k => q[j] # q[k] } })

\* answer.index(number)
Index(answer, number) == (CHOOSE k \in 1..Len(answer) : answer[k] = number) - 1

\* The answer shuffled, clues = dict(), the stars drawn: of the orders
\* random.shuffle can leave and of the lists random.sample can return, two
\* each are taken.
ShuffleAnswer ==
    /\ call.fn = "generate_clues_and_answer" /\ frame = NoCall
    /\ \E answer \in { <<0, 1, 2, 3, 4, 5, 6, 7, 8>>, <<4, 7, 0, 8, 2, 5, 1, 6, 3>> },
          stars \in { <<2, 7, 4>>, <<0, 1, 8>> } :
           frame' = [answer |-> answer, stars |-> stars, clues |-> <<>>, star |-> 1,
                     number |-> 0, needed_clues |-> TOTAL_NUMBER - STARS,
                     certain_indice |-> <<>>, raised |-> FALSE]
    /\ UNCHANGED <<glob, locals, runs, scene, call, ret>>

\* One pass of the loop over stars; after the last, certain_indice is set
\* to the cells of the stars.
RenderStar ==
    /\ call.fn = "generate_clues_and_answer" /\ frame # NoCall /\ ~ frame.raised
    /\ frame.star <= STARS
    /\ \E grid \in generate_render(Index(frame.answer, frame.stars[frame.star]),
                                   TOTAL_NUMBER - 1, <<>>) :
           frame' = [frame EXCEPT
                       !.raised = (grid = <<"ValueError">>),
                       !.clues = IF grid = <<"ValueError">> THEN @
                                 ELSE (frame.stars[frame.star] :> grid) @@ @,
                       !.star = @ + 1,
                       !.certain_indice =
                           IF frame.star < STARS THEN @
                           ELSE [k \in 1..STARS |-> Index(frame.answer, frame.stars[k])]]
    /\ UNCHANGED <<glob, locals, runs, scene, call, ret>>

\* One pass of the loop over answer: a star is passed over, another number
\* gets its grid and its cell becomes certain.
RenderNumber ==
    /\ call.fn = "generate_clues_and_answer" /\ frame # NoCall /\ ~ frame.raised
    /\ frame.star > STARS /\ frame.number < TOTAL_NUMBER
    /\ LET number == frame.answer[frame.number + 1]
       IN  IF \E k \in 1..STARS : frame.stars[k] = number
           THEN frame' = [frame EXCEPT !.number = @ + 1]
           ELSE \E grid \in generate_render(Index(frame.answer, number),
                                            frame.needed_clues - 1, frame.certain_indice) :
                    frame' = [frame EXCEPT
                                !.needed_clues = @ - 1,
                                !.raised = (grid = <<"ValueError">>),
                                !.clues = IF grid = <<"ValueError">> THEN @
                                          ELSE (number :> grid) @@ @,
                                !.certain_indice = Append(@, Index(frame.answer, number)),
                                !.number = @ + 1]
    /\ UNCHANGED <<glob, locals, runs, scene, call, ret>>

\* the answer as strings, the keys of clues raised by one, both returned
ReturnClues ==
    /\ call.fn = "generate_clues_and_answer" /\ frame # NoCall /\ ~ frame.raised
    /\ frame.star > STARS /\ frame.number = TOTAL_NUMBER
    /\ Return(<< [key \in {k + 1 : k \in DOMAIN frame.clues} |-> frame.clues[key - 1]],
                 [k \in 1..Len(frame.answer) |->
                     <<"1", "2", "3", "4", "5", "6", "7", "8", "9">>[frame.answer[k] + 1]] >>)

\* a generator of a sibling puzzle is called, with one of calls
PuzzleInit(calls) ==
    /\ rng = 0 /\ seeded = FALSE /\ seed = 0
    /\ run_no = 1 /\ first = NoRun /\ cur = "A" /\ other = NoRun
    /\ canvas = IMAGE_SIZE /\ items = <<>> /\ tape = <<>>
    /\ NoRunning
    /\ call \in calls
    /\ ret = NoResult /\ frame = NoCall

OptionsNext ==
    \/ ChooseCorrectIndex
    \/ AppendCorrect
    \/ DrawOption
    \/ FinishOptions

\* A draw the while loop accepts exists in every pass (a string of n letters
\* has 3n one-letter variants, more than the options wanted), each with the
\* same positive probability, so almost surely one is drawn: the pass that
\* appends is taken if it stays possible.
FairOptionsSpec ==
    /\ PuzzleInit({ c \in OptionsCalls :
                      Len(c.correct_letters) = Configured(c.difficulty).num_letters })
    /\ [][OptionsNext]_vars
    /\ WF_vars(OptionsNext)
    /\ WF_vars(DrawOption /\ frame'.i # frame.i)

CluesNext ==
    \/ ShuffleAnswer
    \/ RenderStar
    \/ RenderNumber
    \/ ReturnClues

CluesSpec == PuzzleInit({[fn |-> "generate_clues_and_answer"]}) /\ [][CluesNext]_vars

(* ------------------------------ properties ---------------------------- *)
\* the items whose attempt loop ended without a placement
Skipped == {k \in DOMAIN outcome : outcome[k] = "exhausted"}
\* the items render_text_image returned None for
RenderFailed == {k \in DOMAIN outcome : outcome[k] = "render_failed"}

\* C1: at every moment of a run, any two placed items are apart: the
\* separating-axis test on their rotated corners, with the 20-pixel inter-item
\* margin added, finds a separating axis.
C1_PlacedNeverOverlap ==
    \A a \in 1..Len(placed_words), b \in 1..Len(placed_words) :
        a < b => ~ check_polygons_overlap(PlacedCorners(placed_words[a]),
                                          PlacedCorners(placed_words[b]),
                                          INTER_ITEM_MARGIN)

C1_TwoPlaced == Len(placed_words) >= 2

\* C2: every corner of every placed item lies in the half-open safe region,
\* safe_margin <= x < width - safe_margin and safe_margin <= y < height -
\* safe_margin, also when the item's center range was computed with the margin
\* dropped. (Corners are doubled, so are the limits.)
C2_PlacedInsideSafeRegion ==
    \A k \in 1..Len(placed_words) :
        LET corners == PlacedCorners(placed_words[k])
        IN  \A c \in 1..Len(corners) :
                /\ ~ Below(corners[c][1], DEFAULT_SAFE_MARGIN)
                /\ Below(corners[c][1], IMAGE_SIZE[1] - DEFAULT_SAFE_MARGIN)
                /\ ~ Below(corners[c][2], DEFAULT_SAFE_MARGIN)
                /\ Below(corners[c][2], IMAGE_SIZE[2] - DEFAULT_SAFE_MARGIN)

\* an item is placed whose center range on the y axis was relaxed
C2_RelaxedItemPlaced ==
    \E k \in 1..Len(placed_words) :
        LET h == placed_words[k][4]
        IN  h \div 2 + DEFAULT_SAFE_MARGIN >= IMAGE_SIZE[2] - h \div 2 - DEFAULT_SAFE_MARGIN

\* C3: an item that cannot fit the canvas, even with the margin dropped, is
\* skipped: no exception leaves the run on its account.
C3_OversizedNeverRaises == pc # "raised"

\* C4: whatever the random draws, a run finishes its item loop and returns;
\* scramble_word in particular returns, whatever the word.
C4_RunCompletes ==
    /\ <>(pc = "done")
    /\ (pc = "scramble") ~> (pc # "scramble")

\* try_place_word is called in this step
Called ==
    /\ pc = "place"
    /\ attempt' = attempt + 1 \/ outcome'[i] \in {"placed", "raised"}

\* C5: for an item that reaches the attempt loop, try_place_word is called at
\* most MAX_PLACEMENT_ATTEMPTS times: every call is made after fewer than 100
\* failed ones, none is made once the item is placed (the loop moves to the
\* next item), and the item is given up exactly after 100 failed calls.
C5_AttemptsBounded ==
    [][ /\ attempt' <= MAX_PLACEMENT_ATTEMPTS
        /\ Called => attempt < MAX_PLACEMENT_ATTEMPTS /\ outcome[i] = "pending"
        /\ (pc = "place" /\ outcome'[i] = "placed") => (pc' = "loop" /\ i' = i + 1)
        /\ \A k \in DOMAIN outcome :
              (outcome[k] # "exhausted" /\ outcome'[k] = "exhausted")
                  => (k = i /\ attempt = MAX_PLACEMENT_ATTEMPTS)
      ]_vars

C5_ItemGivenUp == \E k \in DOMAIN outcome : outcome[k] = "exhausted"

\* C6: an item whose attempts are exhausted stays skipped and never enters the
\* placed set; skipping changes nothing placed and the loop goes on with the
\* next item; a run that returns has attempted every item.
C6_SkipFinalRunGoesOn ==
    [][ /\ \A k \in DOMAIN outcome :
              /\ outcome[k] = "exhausted" => outcome'[k] = "exhausted"
              /\ outcome'[k] = "exhausted"
                    => \A n \in 1..Len(placed_items') : placed_items'[n].index # k
              /\ (outcome[k] # "exhausted" /\ outcome'[k] = "exhausted")
                    => (pc' = "loop" /\ i' = k + 1 /\ tally' = tally)
        /\ pc' = "done" => \A k \in DOMAIN outcome' : outcome'[k] # "pending"
      ]_vars

\* the first item was skipped and the second is being attempted
C6_NextItemAttempted ==
    /\ total_words >= 2 /\ outcome[0] = "exhausted"
    /\ i = 1 /\ pc = "place" /\ attempt > 0

PlacedCorrect == {n \in 1..Len(placed_items) : placed_items[n].text = word}

\* C8: the reported counts are those of the placed set: the total is the number
\* of placed items, the correct count the number of placed items showing the
\* target word (the items below correct_count, a scrambled item never shows
\* it), and the returned path carries that count.
C8_StatsFromPlacedSet ==
    /\ actual_total_count = Len(placed_words)
    /\ Len(placed_items) = Len(placed_words)
    /\ actual_correct_count = Cardinality(PlacedCorrect)
    /\ \A n \in 1..Len(placed_items) :
          placed_items[n].text = word <=> placed_items[n].index < correct_count
    /\ pc = "done" => result.output_path[2] = Cardinality(PlacedCorrect)

\* a run returned with its correct item placed and a scrambled item skipped
C8_ReturnedScrambledSkipped ==
    /\ pc = "done" /\ actual_correct_count = 1
    /\ \E k \in Skipped : k >= correct_count

\* C9: a run repeated with the same arguments after the generator was seeded
\* with the same value ends as the first did: the same placed items with the
\* same centers in the same order, the same skipped items, the same result.
C9_SameSeedSameRun ==
    (run_no = 2 /\ other.pc = "absent" /\ pc \in {"done", "raised"})
        => /\ placed_words = first.placed_words
           /\ placed_items = first.placed_items
           /\ outcome = first.outcome
           /\ result = first.result
           /\ pc = first.pc

\* the repeated run returned, with an item placed and an item skipped
C9_RepeatedRunReturned ==
    /\ run_no = 2 /\ other.pc = "absent" /\ pc = "done"
    /\ Len(placed_words) >= 1 /\ Skipped # {}

\* the locals of run A, executing or suspended
RunA == IF cur = "A" THEN Frame ELSE other

C12_BlankItemSkippedBeforeGeometry ==
    [][ /\ \A k \in DOMAIN outcome :
              (outcome[k] # "render_failed" /\ outcome'[k] = "render_failed")
                  => /\ k = i /\ pc # "place"
                     /\ tally' = tally
                     /\ pc' = "loop" /\ i' = k + 1
        /\ Called => outcome[i] # "render_failed"
        /\ \A k \in DOMAIN outcome :
              outcome[k] = "render_failed" => outcome'[k] = "render_failed"
      ]_vars

\* the first item rendered to nothing and the run went on
C12_BlankItemPassed ==
    /\ total_words >= 2 /\ outcome[0] = "render_failed"
    /\ i >= 1 /\ \A k \in DOMAIN outcome : outcome[k] \notin {"placed", "exhausted"}

\* the indexes of the placed items are strictly increasing
InCallerOrder(its) ==
    \A m \in 1..Len(its), n \in 1..Len(its) : m < n => its[m].index < its[n].index

\* C18: items are attempted strictly in the caller's order, the copies of the
\* correct word before the scrambled ones; placed_words changes only by one
\* entry appended on a successful attempt, a failed attempt leaves it
\* unchanged, entries are never modified or removed: it is at every step a
\* subsequence of the items in caller order.
C18_InOrderAppendOnly ==
    [][ /\ i' >= i
        /\ Called => \A j \in 0..(i - 1) : outcome[j] # "pending"
        /\ \/ placed_words' = placed_words
           \/ /\ Called /\ outcome'[i] = "placed"
              /\ Len(placed_words') = Len(placed_words) + 1
              /\ SubSeq(placed_words', 1, Len(placed_words)) = placed_words
              /\ placed_items' = Append(placed_items,
                                        [index |-> i, text |-> current_word])
        /\ (Called /\ outcome'[i] # "placed") => placed_words' = placed_words
        /\ InCallerOrder(placed_items')
        /\ \A m \in 1..Len(placed_items'), n \in 1..Len(placed_items') :
              (m < n /\ placed_items'[n].text = word) => placed_items'[m].text = word
      ]_vars

\* a scrambled copy was placed after a correct one
C18_ScrambledAfterCorrect ==
    /\ Len(placed_items) >= 2
    /\ placed_items[1].text = word /\ placed_items[2].text # word


\* entries p and q of placed_words, both unrotated, are more than twice the
\* margin apart along x or along y
BoxesApart(p, q, margin) ==
    \/ 2 * Abs(p[1] - q[1]) > p[3] + q[3] + 4 * margin
    \/ 2 * Abs(p[2] - q[2]) > p[4] + q[4] + 4 * margin

\* the unrotated entry p of placed_words lies in the safe region of the canvas
BoxInBounds(p) ==
    /\ 2 * DEFAULT_SAFE_MARGIN <= 2 * p[1] - p[3]
    /\ 2 * p[1] + p[3] < 2 * (canvas[1] - DEFAULT_SAFE_MARGIN)
    /\ 2 * DEFAULT_SAFE_MARGIN <= 2 * p[2] - p[4]
    /\ 2 * p[2] + p[4] < 2 * (canvas[2] - DEFAULT_SAFE_MARGIN)

PlacedApartInBounds ==
    /\ \A k \in 1..Len(placed_words) : BoxInBounds(placed_words[k])
    /\ \A a \in 1..Len(placed_words), b \in 1..Len(placed_words) :
           a < b => BoxesApart(placed_words[a], placed_words[b], INTER_ITEM_MARGIN)

\* C13: Scenario A, five boxes of 100 x 40 at angle 0 on the 800 x 600
\* canvas: whatever the draws, the run ends with all five placed, none
\* skipped, any two apart and all in bounds.
C13_ScenarioAAllPlaced ==
    (items = ScenarioA /\ canvas = IMAGE_SIZE /\ pc = "done")
        => /\ Len(placed_words) = 5
           /\ Skipped = {}
           /\ PlacedApartInBounds

\* C14: Scenario C, ten boxes of 200 x 200 at angle 0 on the 800 x 600
\* canvas: placed_words never has more than six entries, any two of them are
\* apart, and at the end of the run every item not placed was skipped.
C14_AtMostSixPlaced ==
    (items = ScenarioC /\ canvas = IMAGE_SIZE)
        => /\ Len(placed_words) <= 6
           /\ PlacedApartInBounds
           /\ pc = "done" => Cardinality(Skipped) = Len(items) - Len(placed_words)

\* a run of Scenario C is over with six boxes placed and four skipped
C14_SixPlacedFourSkipped ==
    /\ items = ScenarioC /\ canvas = IMAGE_SIZE /\ pc = "done"
    /\ Len(placed_words) = 6 /\ Cardinality(Skipped) = 4

\* the number of items the run with locals f skipped
SkipCount(f) == Cardinality({k \in DOMAIN f.outcome : f.outcome[k] = "exhausted"})

\* C15: the same boxes and the same seed on a smaller canvas: the second run
\* skips at least as many items as the first.
C15_SmallerCanvasSkipsNoFewer ==
    (run_no = 2 /\ pc = "done") => SkipCount(Frame) >= SkipCount(first)

\* the center range of this item's box is relaxed on x or on y
Relaxed(width, height) ==
    \/ width \div 2 + DEFAULT_SAFE_MARGIN >= canvas[1] - width \div 2 - DEFAULT_SAFE_MARGIN
    \/ height \div 2 + DEFAULT_SAFE_MARGIN >= canvas[2] - height \div 2 - DEFAULT_SAFE_MARGIN

\* C17: the margin is dropped from the center range of an axis only when the
\* range with the margin, from width / 2 + margin to image width - width / 2
\* - margin, is empty (lower end above upper end; the ends are compared
\* doubled); when it holds one value or more, the center is drawn from the
\* range with the margin.
C17_RelaxedOnlyWhenEmpty ==
    (call.fn = "center_range" /\ ret.done) =>
        LET w == call.width
            h == call.height
            m == call.safe_margin
        IN  /\ w + 2 * m <= 2 * call.image_size[1] - w - 2 * m
                => /\ ret.value[1] = w \div 2 + m
                   /\ ret.value[2] = call.image_size[1] - w \div 2 - m
            /\ h + 2 * m <= 2 * call.image_size[2] - h - 2 * m
                => /\ ret.value[3] = h \div 2 + m
                   /\ ret.value[4] = call.image_size[2] - h \div 2 - m

\* C19: for an item at angle 0 whose center range is relaxed on x or on y,
\* every call of try_place_word returns no placement: the call fails, nothing
\* is placed, and the attempt loop goes on.
C19_RelaxedUnrotatedNoPlacement ==
    [][ (Called /\ angle = 0 /\ Relaxed(collision_width, collision_height))
            => /\ outcome'[i] = "pending"
               /\ attempt' = attempt + 1
               /\ placed_words' = placed_words
      ]_vars

\* the corners are one point
IsPoint(corners) == \A k \in 1..Len(corners) : corners[k] = corners[1]

\* the edges of non-zero length, by the index of their first corner
NonZeroEdges(corners) ==
    {k \in 1..Len(corners) : corners[k] # corners[(k % Len(corners)) + 1]}

\* C20: get_polygon_axes returns, without raising, one normal of length 1 for
\* each edge of non-zero length and none for an edge of zero length; for two
\* polygons without extent check_polygons_overlap reports a collision, for
\* every margin and every distance, and try_place_word never places an item
\* without extent when another one is placed.
C20_ZeroEdgesGiveNoAxis ==
    /\ (call.fn = "get_polygon_axes" /\ ret.done) =>
          /\ Len(ret.value) = Cardinality(NonZeroEdges(PlacedCorners(call.box)))
          /\ \A k \in 1..Len(ret.value) :
                 ret.value[k].unit[1] * ret.value[k].unit[1]
                 + ret.value[k].unit[2] * ret.value[k].unit[2] = 1
    /\ (/\ call.fn = "check_polygons_overlap" /\ ret.done
        /\ IsPoint(PlacedCorners(call.box1)) /\ IsPoint(PlacedCorners(call.box2)))
          => ret.value = TRUE
    /\ (call.fn = "try_place_word" /\ ret.done) => ret.value = None

\* two points 600 apart, no margin: the call has returned
C20_DistantPointsCompared ==
    /\ call.fn = "check_polygons_overlap" /\ ret.done
    /\ call.box1[3] = 0 /\ call.box1[4] = 0 /\ call.box2[3] = 0 /\ call.box2[4] = 0
    /\ call.box1[1] = 100 /\ call.box2[1] = 700 /\ call.margin = 0

\* C16: calculate_corners returns, at angle 0, exactly the four corners
\* (cx -/+ w/2, cy -/+ h/2) in the order top-left, top-right, bottom-right,
\* bottom-left, and at angle 180 a set of corners equal to that set reflected
\* through the center, each corner c mapped to 2 * center - c.  (unrotated:
\* the four corners doubled; a corner without a rounding error is
\* << <<x, 0>>, <<y, 0>> >>.)
C16_UnrotatedExactTurnedReflected ==
    (call.fn = "calculate_corners" /\ ret.done) =>
        LET b == call.box
            unrotated == << <<2 * b[1] - b[3], 2 * b[2] - b[4]>>,
                            <<2 * b[1] + b[3], 2 * b[2] - b[4]>>,
                            <<2 * b[1] + b[3], 2 * b[2] + b[4]>>,
                            <<2 * b[1] - b[3], 2 * b[2] + b[4]>> >>
        IN  /\ b[5] = 0 =>
                  ret.value = [k \in 1..4 |-> << <<unrotated[k][1], 0>>,
                                                 <<unrotated[k][2], 0>> >>]
            /\ b[5] = 180 =>
                  {ret.value[k] : k \in 1..4}
                      = { << <<4 * b[1] - unrotated[k][1], 0>>,
                             <<4 * b[2] - unrotated[k][2], 0>> >> : k \in 1..4 }

\* C11: for two rectangles with rotations in {0, 90, 180, 270} and a margin
\* m >= 0, check_polygons_overlap returns FALSE exactly when the projections,
\* widened by m, are strictly apart on an edge normal, which for these
\* rectangles is: TRUE iff the x-intervals widened by m intersect and the
\* y-intervals widened by m intersect, ends included; so rectangles that only
\* touch along an edge or at a corner are reported as colliding.  (e1, e2:
\* the width and the height of the boxes along x and y.)
C11_CollideIffIntervalsMeet ==
    (/\ call.fn = "check_polygons_overlap" /\ ret.done
     /\ call.box1[3] > 0 /\ call.box1[4] > 0 /\ call.box2[3] > 0 /\ call.box2[4] > 0)
        => LET b1 == call.box1
               b2 == call.box2
               e1 == IF b1[5] \in {90, 270} THEN <<b1[4], b1[3]>> ELSE <<b1[3], b1[4]>>
               e2 == IF b2[5] \in {90, 270} THEN <<b2[4], b2[3]>> ELSE <<b2[3], b2[4]>>
           IN  ret.value <=>
                   /\ Abs(2 * b1[1] - 2 * b2[1]) <= e1[1] + e2[1] + 4 * call.margin
                   /\ Abs(2 * b1[2] - 2 * b2[2]) <= e1[2] + e2[2] + 4 * call.margin

\* C21: for every difficulty and every string correct_letters of the
\* configured length, generate_options returns exactly num_options strings,
\* pairwise distinct, with correct_letters at the returned correct_index and
\* nowhere else, every other option differing from correct_letters in exactly
\* one position by a visually similar letter of the letter replaced; and with
\* fair draws every pass of the for loop ends, so the while loop terminates.
C21_OptionsOneSimilarLetterApart ==
    /\ [](call.fn = "generate_options" /\ ret.done =>
            LET options == ret.value[1]
                correct_index == ret.value[2]
                correct_letters == call.correct_letters
            IN  /\ Len(options) = Configured(call.difficulty).num_options
                /\ \A j, k \in 1..Len(options) : j # k => options[j] # options[k]
                /\ correct_index \in 0..(Len(options) - 1)
                /\ \A k \in 1..Len(options) :
                       IF k = correct_index + 1 THEN options[k] = correct_letters
                       ELSE /\ Len(options[k]) = Len(correct_letters)
                            /\ \E pos \in 1..Len(correct_letters) :
                                   /\ \A q \in 1..Len(correct_letters) :
                                          (options[k][q] # correct_letters[q]) <=> q = pos
                                   /\ \E n \in 1..Len(visually_similar_letters[correct_letters[pos]]) :
                                          options[k][pos]
                                              = visually_similar_letters[correct_letters[pos]][n])
    /\ \A k \in 0..3 :
           (call.fn = "generate_options" /\ frame # NoCall /\ frame.i = k
                /\ k < Configured(call.difficulty).num_options)
             ~> (frame # NoCall /\ frame.i = k + 1)

\* a hard puzzle's four options are returned, the correct one third, the
\* last one drawn with its fourth letter replaced
C21_HardOptionsReturned ==
    /\ call.fn = "generate_options" /\ ret.done /\ call.difficulty = "hard"
    /\ Len(ret.value[1]) = 4 /\ ret.value[2] = 2 /\ frame.draw[1] = 3

\* C22: for every shuffled answer, every three star numbers and every draw,
\* generate_clues_and_answer returns a clue grid for each of the numbers 1..9
\* (the keys generate_picture asserts); in the grid of number n the cell where
\* n sits in the answer is never 'x'; a '*' is only in the grid of a star
\* number, at that number's own cell; and random.sample is never called on
\* fewer already-determined cells than it draws, so it never raises.
C22_CluesConsistent ==
    (call.fn = "generate_clues_and_answer" /\ frame # NoCall) =>
        /\ ~ frame.raised
        /\ ret.done =>
             LET clues == ret.value[1]
                 answer == ret.value[2]
                 name == <<"1", "2", "3", "4", "5", "6", "7", "8", "9">>
             IN  /\ \A key \in 1..9 : key \in DOMAIN clues
                 /\ \A key \in DOMAIN clues :
                        /\ Len(clues[key]) = TOTAL_NUMBER
                        /\ \A cell \in 1..TOTAL_NUMBER :
                               /\ answer[cell] = name[key] => clues[key][cell] # "x"
                               /\ clues[key][cell] = "*" =>
                                      /\ answer[cell] = name[key]
                                      /\ \E k \in 1..STARS : frame.stars[k] + 1 = key

\* clues are returned in which a star number has a '*', another star number
\* eight 'x', and the last number's grid has only its two extra clues
C22_StarEightAndExtraReturned ==
    /\ call.fn = "generate_clues_and_answer" /\ ret.done
    /\ \E j, k \in 1..STARS :
           /\ \E cell \in 1..TOTAL_NUMBER : ret.value[1][frame.stars[j] + 1][cell] = "*"
           /\ should_add_extra_clues(ret.value[1][frame.stars[k] + 1]) = FALSE
           /\ \A cell \in 1..TOTAL_NUMBER : ret.value[1][frame.stars[k] + 1][cell] # "*"
    /\ \E key \in 1..9 :
           /\ \A k \in 1..STARS : frame.stars[k] + 1 # key
           /\ Cardinality({cell \in 1..TOTAL_NUMBER : ret.value[1][key][cell] = "x"})
                  = NUMBER_OF_EXTRA_CLUES
           /\ frame.answer[TOTAL_NUMBER] + 1 = key

====
